---- MODULE Spec2Model ----
(***************************************************************************)
(* Model of the process execution event stream of codex-go:               *)
(* exec.LocalRunner.Start, its two stream drains, its exit watcher, the   *)
(* returned cancel closure, the spawned process as seen through os/exec,  *)
(* and the consumer loop of `codex run`.                                   *)
(***************************************************************************)
EXTENDS Integers, Sequences, FiniteSets, TLC

\* ---------------------------------------------------------------- bounds
MaxWrite == 2       \* bytes the process writes to each standard stream
MaxEnv == 2         \* entries of an environment list
MaxLines == 2       \* lines on the input of agent.Serve
MaxStatus == 12     \* largest exit status tried for the exit code

\* ------------------------------------------------------ program constants
EventStdout == 0
EventStderr == 1
EventExit == 2
EventsCap == 16     \* make(chan Event, 16)
chunk == 4096       \* read buffer size of a drain

Streams == {EventStdout, EventStderr}
TimeoutSecs == {0, 1}            \* Options.TimeoutSec values tried
ExitCodes == {0, 3}              \* statuses the process may exit with
LaunchOutcomes == {"ok", "stdoutPipeErr", "stderrPipeErr", "startErr"}
KilledStatus == 0 - 1            \* WaitStatus.ExitStatus() of a signaled process

VARIABLES
    ret,          \* what the last Start call returned: feed, cancel, err
    argvLen,      \* len(argv) of the last Start call
    timeoutSec,   \* opt.TimeoutSec of the last Start call
    timer,        \* the timeout scope: "none" (cancelTimeout == nil), "armed", "fired", "released"
    parentDone,   \* the caller-supplied context has been cancelled
    proc,         \* the OS process: "none", "running", "exited"
    status,       \* exit status of the process once exited (KilledStatus when killed)
    written,      \* bytes the process has written to each stream so far
    pipe,         \* bytes sitting in each pipe, written and not yet read
    rdClosed,     \* the parent's read ends of the pipes have been closed (by cmd.Wait)
    rerr,         \* the err of each drain's last Read: "nil", "EOF", "closed" (read end closed), "io"
    pc,           \* position of each drain: "none", "read", "send", "done", "panic"
    buf,          \* buf[:n] of each drain, the chunk read and not yet published
    wpc,          \* position of the exit watcher: "none", "wait", "send", "close", "release", "done"
    code,         \* the watcher's local variable code
    events,       \* contents of the events channel
    closed,       \* the channel returned to the caller has been closed
    closeCount,   \* number of close(events) executed on the channel of this execution
    term,         \* what the consumer has written to its own stdout and stderr, byte by byte
    exits,        \* the codes of the Exit events the consumer has received, in order
    late,         \* the consumer has received a Stdout or Stderr event after an Exit event
    sawClosed,    \* the consumer's receive has reported the feed closed
    cancelled,    \* the returned cancel func has been invoked at least once
    osEnviron,    \* os.Environ() of the calling program, a list of <<key, value>>
    optEnv,       \* Options.Env handed to Start, a list of <<key, value>>
    procEnv,      \* the environment the spawned process observes: key -> value
    scanner,      \* agent.Serve: the input lines not yet scanned
    w,            \* agent.Serve: the lines written so far
    handled,      \* agent.Serve: the lines scanned and dispatched so far
    serveCtxDone, \* agent.Serve: its context has been cancelled
    serveRet,     \* agent.Serve: "running", or what it returned: "nil", "ctxErr"
    werr,         \* exit code: the error cmd.Wait returned
    wstatus,      \* exit code: the status the operating system reports
    wcode,        \* exit code: the watcher's local code
    wstep,        \* exit code: the watcher's position
    sent,         \* exit code: the Exit event the watcher sent
    mcpScanner,   \* mcp.Serve: the input lines not yet scanned
    mcpW,         \* mcp.Serve: the lines written so far
    mcpHandled,   \* mcp.Serve: the lines scanned and answered so far
    mcpRet        \* mcp.Serve: "running", or what it returned: "nil", "writeErr"

vars == <<ret, argvLen, timeoutSec, timer, parentDone, proc, status, written, pipe,
          rdClosed, rerr, pc, buf, wpc, code, events, closed, closeCount,
          term, exits, late, sawClosed, cancelled>>

\* The variables of the environment hand-over and of the protocol loop, which
\* the event stream leaves alone.
envVars == <<osEnviron, optEnv, procEnv>>
agentVars == <<scanner, w, handled, serveCtxDone, serveRet>>
codeVars == <<werr, wstatus, wcode, wstep, sent>>
mcpVars == <<mcpScanner, mcpW, mcpHandled, mcpRet>>
sideVars == <<envVars, agentVars, codeVars, mcpVars>>
allVars == <<vars, sideVars>>

procVars == <<proc, status, written, pipe, rdClosed, rerr>>
drainVars == <<pc, buf>>
watchVars == <<wpc, code>>
chanVars == <<events, closed, closeCount>>
consVars == <<term, exits, late, sawClosed>>

\* Event{Type, Data, Code}
Event(t, d, c) == [Type |-> t, Data |-> d, Code |-> c]

NoRet == [feed |-> "none", cancel |-> "none", err |-> FALSE]

\* An unrecovered panic in any goroutine terminates the whole program.
crashed == \E s \in Streams : pc[s] = "panic"

\* Mutant of ctxDone: the context bound to the process is not derived from
\* the caller's context, so only the deadline makes it done.
ctxDoneTimerOnly == timer \in {"fired", "released"}

\* The context bound to the process by CommandContext is done.
ctxDone == parentDone \/ timer \in {"fired", "released"}

\* No Start call has been made yet.
RunnerIdle ==
    /\ ret = NoRet
    /\ argvLen = 0
    /\ timeoutSec = 0
    /\ timer = "none"
    /\ parentDone = FALSE
    /\ proc = "none"
    /\ status = 0
    /\ written = [s \in Streams |-> 0]
    /\ pipe = [s \in Streams |-> <<>>]
    /\ rdClosed = FALSE
    /\ rerr = [s \in Streams |-> "nil"]
    /\ pc = [s \in Streams |-> "none"]
    /\ buf = [s \in Streams |-> <<>>]
    /\ wpc = "none"
    /\ code = 0
    /\ events = <<>>
    /\ closed = FALSE
    /\ closeCount = 0
    /\ term = [s \in Streams |-> <<>>]
    /\ exits = <<>>
    /\ late = FALSE
    /\ sawClosed = FALSE
    /\ cancelled = FALSE

\* No process has been handed an environment.
NoProcEnv == [spawned |-> FALSE, vars |-> <<>>]

EnvIdle ==
    /\ osEnviron = <<>>
    /\ optEnv = <<>>
    /\ procEnv = NoProcEnv

\* agent.Serve has not been called.
AgentIdle ==
    /\ scanner = <<>>
    /\ w = <<>>
    /\ handled = <<>>
    /\ serveCtxDone = FALSE
    /\ serveRet = "nil"

\* No exit code is being computed.
CodeIdle ==
    /\ werr = "nil"
    /\ wstatus = 0
    /\ wcode = 0
    /\ wstep = "none"
    /\ sent = <<>>

\* mcp.Serve has not been called.
McpIdle ==
    /\ mcpScanner = <<>>
    /\ mcpW = <<>>
    /\ mcpHandled = <<>>
    /\ mcpRet = "nil"

Init == RunnerIdle /\ EnvIdle /\ AgentIdle /\ CodeIdle /\ McpIdle

\* The caller may call Start when it holds no live execution: before the
\* first call, or after a call that returned an error or the empty feed.
CanStart ==
    /\ ~crashed
    /\ proc = "none"

\* Mutant of StartEmpty: the channel is returned without being closed.
StartEmptyOpen ==
    /\ CanStart
    /\ ret' = [feed |-> "ch", cancel |-> "noop", err |-> FALSE]
    /\ events' = <<>>
    /\ closed' = FALSE
    /\ closeCount' = 0
    /\ term' = [s \in Streams |-> <<>>]
    /\ exits' = <<>>
    /\ late' = FALSE
    /\ sawClosed' = FALSE
    /\ cancelled' = FALSE
    /\ argvLen' = 0
    /\ timeoutSec' = 0
    /\ timer' = "none"
    /\ UNCHANGED <<parentDone, procVars, drainVars, watchVars>>
    /\ UNCHANGED sideVars

\* Start with len(argv) == 0: an unbuffered channel, closed at once, and a
\* cancel func that does nothing.
StartEmpty ==
    /\ CanStart
    /\ ret' = [feed |-> "ch", cancel |-> "noop", err |-> FALSE]
    /\ events' = <<>>
    /\ closed' = TRUE
    /\ closeCount' = 1
    /\ term' = [s \in Streams |-> <<>>]
    /\ exits' = <<>>
    /\ late' = FALSE
    /\ sawClosed' = FALSE
    /\ cancelled' = FALSE
    /\ argvLen' = 0
    /\ timeoutSec' = 0
    /\ timer' = "none"
    /\ UNCHANGED <<parentDone, procVars, drainVars, watchVars>>
    /\ UNCHANGED sideVars

\* Mutant of StartFail: a failed cmd.Start hands back the channel it made and
\* leaves the exit watcher spawned.
StartFailPartial(t, outcome) ==
    /\ CanStart
    /\ outcome # "ok"
    /\ argvLen' = 1
    /\ timeoutSec' = t
    /\ timer' = IF t > 0 THEN "released" ELSE "none"
    /\ ret' = [feed |-> IF outcome = "startErr" THEN "ch" ELSE "nil",
               cancel |-> "nil", err |-> TRUE]
    /\ wpc' = IF outcome = "startErr" THEN "wait" ELSE wpc
    /\ events' = <<>>
    /\ closed' = FALSE
    /\ closeCount' = 0
    /\ term' = [s \in Streams |-> <<>>]
    /\ exits' = <<>>
    /\ late' = FALSE
    /\ sawClosed' = FALSE
    /\ cancelled' = FALSE
    /\ UNCHANGED <<parentDone, procVars, drainVars, code>>
    /\ UNCHANGED sideVars

\* Start whose StdoutPipe, StderrPipe or cmd.Start fails: the timeout scope,
\* if one was derived, is released and (nil, nil, err) is returned.
StartFail(t, outcome) ==
    /\ CanStart
    /\ outcome # "ok"
    /\ argvLen' = 1
    /\ timeoutSec' = t
    /\ timer' = IF t > 0 THEN "released" ELSE "none"
    /\ ret' = [feed |-> "nil", cancel |-> "nil", err |-> TRUE]
    /\ events' = <<>>
    /\ closed' = FALSE
    /\ closeCount' = 0
    /\ term' = [s \in Streams |-> <<>>]
    /\ exits' = <<>>
    /\ late' = FALSE
    /\ sawClosed' = FALSE
    /\ cancelled' = FALSE
    /\ UNCHANGED <<parentDone, procVars, drainVars, watchVars>>
    /\ UNCHANGED sideVars

\* Start that starts the process: the channel is made, the two drains and
\* the watcher are spawned, and (events, cancel, nil) is returned.
StartOk(t) ==
    /\ CanStart
    /\ argvLen' = 1
    /\ timeoutSec' = t
    /\ timer' = IF t > 0 THEN "armed" ELSE "none"
    /\ proc' = "running"
    /\ status' = 0
    /\ written' = [s \in Streams |-> 0]
    /\ pipe' = [s \in Streams |-> <<>>]
    /\ rdClosed' = FALSE
    /\ rerr' = [s \in Streams |-> "nil"]
    /\ events' = <<>>
    /\ closed' = FALSE
    /\ closeCount' = 0
    /\ pc' = [s \in Streams |-> "read"]
    /\ buf' = [s \in Streams |-> <<>>]
    /\ wpc' = "wait"
    /\ code' = 0
    /\ ret' = [feed |-> "ch", cancel |-> "cancel", err |-> FALSE]
    /\ term' = [s \in Streams |-> <<>>]
    /\ exits' = <<>>
    /\ late' = FALSE
    /\ sawClosed' = FALSE
    /\ cancelled' = FALSE
    /\ UNCHANGED parentDone
    /\ UNCHANGED sideVars

Start ==
    \/ StartEmpty
    \/ \E t \in TimeoutSecs : \E o \in LaunchOutcomes \ {"ok"} : StartFail(t, o)
    \/ \E t \in TimeoutSecs : StartOk(t)

\* ------------------------------------------------------------ environment
\* The process writes one more byte to one of its standard streams.
ProcWrite(s) ==
    /\ ~crashed
    /\ proc = "running"
    /\ written[s] < MaxWrite
    /\ written' = [written EXCEPT ![s] = @ + 1]
    /\ pipe' = [pipe EXCEPT ![s] = Append(@, written[s] + 1)]
    /\ UNCHANGED <<ret, argvLen, timeoutSec, timer, parentDone, proc, status, rdClosed,
                   rerr, drainVars, watchVars, chanVars, consVars, cancelled>>
    /\ UNCHANGED sideVars

\* The process exits on its own with status c; its ends of the pipes close.
ProcExit(c) ==
    /\ ~crashed
    /\ proc = "running"
    /\ proc' = "exited"
    /\ status' = c
    /\ UNCHANGED <<ret, argvLen, timeoutSec, timer, parentDone, written, pipe, rdClosed,
                   rerr, drainVars, watchVars, chanVars, consVars, cancelled>>
    /\ UNCHANGED sideVars

\* CommandContext: once the context is done the running process is killed.
ProcKill ==
    /\ ~crashed
    /\ proc = "running"
    /\ ctxDone
    /\ proc' = "exited"
    /\ status' = KilledStatus
    /\ UNCHANGED <<ret, argvLen, timeoutSec, timer, parentDone, written, pipe, rdClosed,
                   rerr, drainVars, watchVars, chanVars, consVars, cancelled>>
    /\ UNCHANGED sideVars

\* context.WithTimeout: the deadline passes while the process runs (a deadline
\* that passes after the process is gone has no effect on anything).
TimerFire ==
    /\ ~crashed
    /\ proc = "running"
    /\ timer = "armed"
    /\ timer' = "fired"
    /\ UNCHANGED <<ret, argvLen, timeoutSec, parentDone, procVars, drainVars, watchVars,
                   chanVars, consVars, cancelled>>
    /\ UNCHANGED sideVars

\* The caller-supplied context is cancelled (SIGINT/SIGTERM in `codex run`)
\* while the process runs.
ParentCancel ==
    /\ ~crashed
    /\ proc = "running"
    /\ ~parentDone
    /\ parentDone' = TRUE
    /\ UNCHANGED <<ret, argvLen, timeoutSec, timer, procVars, drainVars, watchVars,
                   chanVars, consVars, cancelled>>
    /\ UNCHANGED sideVars

\* ----------------------------------------------------------- stream drains
Min(a, b) == IF a < b THEN a ELSE b

\* br.Read(buf) returning n > 0: whatever the pipe holds, up to chunk bytes.
ReadChunk(s) ==
    /\ ~crashed
    /\ pc[s] = "read"
    /\ ~rdClosed
    /\ Len(pipe[s]) > 0
    /\ LET n == Min(Len(pipe[s]), chunk) IN
        /\ buf' = [buf EXCEPT ![s] = SubSeq(pipe[s], 1, n)]
        /\ pipe' = [pipe EXCEPT ![s] = SubSeq(@, n + 1, Len(@))]
    /\ pc' = [pc EXCEPT ![s] = "send"]
    /\ UNCHANGED <<ret, argvLen, timeoutSec, timer, parentDone, proc, status, written,
                   rdClosed, rerr, watchVars, chanVars, consVars, cancelled>>
    /\ UNCHANGED sideVars

\* Mutant of ReadEOF: a drain that reaches the end of its stream closes the
\* events channel.
ReadEOFCloses(s) ==
    /\ ~crashed
    /\ pc[s] = "read"
    /\ ~rdClosed
    /\ Len(pipe[s]) = 0
    /\ proc = "exited"
    /\ rerr' = [rerr EXCEPT ![s] = "EOF"]
    /\ pc' = [pc EXCEPT ![s] = "done"]
    /\ closed' = TRUE
    /\ closeCount' = closeCount + 1
    /\ UNCHANGED <<ret, argvLen, timeoutSec, timer, parentDone, proc, status, written,
                   pipe, rdClosed, buf, watchVars, events, consVars, cancelled>>
    /\ UNCHANGED sideVars

\* br.Read(buf) returning (0, io.EOF): the pipe is empty and the process,
\* which held the write end, is gone. The drain returns.
ReadEOF(s) ==
    /\ ~crashed
    /\ pc[s] = "read"
    /\ ~rdClosed
    /\ Len(pipe[s]) = 0
    /\ proc = "exited"
    /\ rerr' = [rerr EXCEPT ![s] = "EOF"]
    /\ pc' = [pc EXCEPT ![s] = "done"]
    /\ UNCHANGED <<ret, argvLen, timeoutSec, timer, parentDone, proc, status, written,
                   pipe, rdClosed, buf, watchVars, chanVars, consVars, cancelled>>
    /\ UNCHANGED sideVars

\* br.Read(buf) returning (0, err) because cmd.Wait has closed the read end
\* of the pipe: whatever the pipe still held is never read. The drain returns.
ReadClosed(s) ==
    /\ ~crashed
    /\ pc[s] = "read"
    /\ rdClosed
    /\ rerr' = [rerr EXCEPT ![s] = "closed"]
    /\ pc' = [pc EXCEPT ![s] = "done"]
    /\ UNCHANGED <<ret, argvLen, timeoutSec, timer, parentDone, proc, status, written,
                   pipe, rdClosed, buf, watchVars, chanVars, consVars, cancelled>>
    /\ UNCHANGED sideVars

\* Mutant of ReadIOError: a read error on one stream stops both drains.
ReadIOErrorStopsBoth(s) ==
    /\ ~crashed
    /\ pc[s] = "read"
    /\ ~rdClosed
    /\ rerr' = [rerr EXCEPT ![s] = "io"]
    /\ pc' = [t \in Streams |-> "done"]
    /\ UNCHANGED <<ret, argvLen, timeoutSec, timer, parentDone, proc, status, written,
                   pipe, rdClosed, buf, watchVars, chanVars, consVars, cancelled>>
    /\ UNCHANGED sideVars

\* br.Read(buf) returning (0, err) for an I/O error of the environment.
ReadIOError(s) ==
    /\ ~crashed
    /\ pc[s] = "read"
    /\ ~rdClosed
    /\ rerr' = [rerr EXCEPT ![s] = "io"]
    /\ pc' = [pc EXCEPT ![s] = "done"]
    /\ UNCHANGED <<ret, argvLen, timeoutSec, timer, parentDone, proc, status, written,
                   pipe, rdClosed, buf, watchVars, chanVars, consVars, cancelled>>
    /\ UNCHANGED sideVars

\* Mutant of Publish: the event is put in front of the events already queued.
PublishInFront(s) ==
    /\ ~crashed
    /\ pc[s] = "send"
    /\ IF closed
       THEN /\ pc' = [pc EXCEPT ![s] = "panic"]
            /\ UNCHANGED <<buf, chanVars>>
       ELSE /\ Len(events) < EventsCap
            /\ events' = <<Event(s, buf[s], 0)>> \o events
            /\ buf' = [buf EXCEPT ![s] = <<>>]
            /\ pc' = [pc EXCEPT ![s] = "read"]
            /\ UNCHANGED <<closed, closeCount>>
    /\ UNCHANGED <<ret, argvLen, timeoutSec, timer, parentDone, procVars, watchVars,
                   consVars, cancelled>>
    /\ UNCHANGED sideVars

\* events <- Event{Type: et, Data: string(buf[:n])}: a send on a closed
\* channel panics, a send on a full channel blocks.
Publish(s) ==
    /\ ~crashed
    /\ pc[s] = "send"
    /\ IF closed
       THEN /\ pc' = [pc EXCEPT ![s] = "panic"]
            /\ UNCHANGED <<buf, chanVars>>
       ELSE /\ Len(events) < EventsCap
            /\ events' = Append(events, Event(s, buf[s], 0))
            /\ buf' = [buf EXCEPT ![s] = <<>>]
            /\ pc' = [pc EXCEPT ![s] = "read"]
            /\ UNCHANGED <<closed, closeCount>>
    /\ UNCHANGED <<ret, argvLen, timeoutSec, timer, parentDone, procVars, watchVars,
                   consVars, cancelled>>
    /\ UNCHANGED sideVars

\* -------------------------------------------------------------- exit watcher
\* The error cmd.Wait returns for a process that ended with status st.
WaitErrs(st) == IF st = 0 THEN {"nil"} ELSE {"ExitError"}

\* Mutant of ExitCode: the status of an ExitError is never assigned to code,
\* which keeps its initial 0.
ExitCodeKeepsZero(err, st) ==
    IF err = "nil" THEN 0
    ELSE IF err = "ExitError" THEN 0
    ELSE 1

\* Mutant of ExitCode: code is not preset to 1 for an error whose status
\* cannot be decoded.
ExitCodeDefaultZero(err, st) ==
    IF err = "nil" THEN 0
    ELSE IF err = "ExitError" THEN st
    ELSE 0

\* Lines 145-155: the code computed from the error of cmd.Wait.
ExitCode(err, st) ==
    IF err = "nil" THEN 0
    ELSE IF err = "ExitError" THEN st
    ELSE 1

\* Mutant of Wait: the watcher goes on to close the channel without
\* publishing the Exit event.
WaitSkipsPublish ==
    /\ ~crashed
    /\ wpc = "wait"
    /\ proc = "exited"
    /\ rdClosed' = TRUE
    /\ \E err \in WaitErrs(status) : code' = ExitCode(err, status)
    /\ wpc' = "close"
    /\ UNCHANGED <<ret, argvLen, timeoutSec, timer, parentDone, proc, status, written,
                   pipe, rerr, drainVars, chanVars, consVars, cancelled>>
    /\ UNCHANGED sideVars

\* err := cmd.Wait(): returns once the process is gone, closes the parent's
\* read ends of both pipes, and the code is computed.
Wait ==
    /\ ~crashed
    /\ wpc = "wait"
    /\ proc = "exited"
    /\ rdClosed' = TRUE
    /\ \E err \in WaitErrs(status) : code' = ExitCode(err, status)
    /\ wpc' = "send"
    /\ UNCHANGED <<ret, argvLen, timeoutSec, timer, parentDone, proc, status, written,
                   pipe, rerr, drainVars, chanVars, consVars, cancelled>>
    /\ UNCHANGED sideVars

\* Mutant of PublishExit: the Exit event is sent twice.
PublishExitTwice ==
    /\ ~crashed
    /\ wpc = "send"
    /\ ~closed
    /\ Len(events) + 1 < EventsCap
    /\ events' = events \o <<Event(EventExit, <<>>, code), Event(EventExit, <<>>, code)>>
    /\ wpc' = "close"
    /\ UNCHANGED <<ret, argvLen, timeoutSec, timer, parentDone, procVars, drainVars,
                   code, closed, closeCount, consVars, cancelled>>
    /\ UNCHANGED sideVars

\* events <- Event{Type: EventExit, Code: code}
PublishExit ==
    /\ ~crashed
    /\ wpc = "send"
    /\ ~closed
    /\ Len(events) < EventsCap
    /\ events' = Append(events, Event(EventExit, <<>>, code))
    /\ wpc' = "close"
    /\ UNCHANGED <<ret, argvLen, timeoutSec, timer, parentDone, procVars, drainVars,
                   code, closed, closeCount, consVars, cancelled>>
    /\ UNCHANGED sideVars

\* close(events)
CloseEvents ==
    /\ ~crashed
    /\ wpc = "close"
    /\ closed' = TRUE
    /\ closeCount' = closeCount + 1
    /\ wpc' = "release"
    /\ UNCHANGED <<ret, argvLen, timeoutSec, timer, parentDone, procVars, drainVars,
                   code, events, consVars, cancelled>>
    /\ UNCHANGED sideVars

\* cancelTimeout(): the value of timer after `if cancelTimeout != nil { cancelTimeout() }`
cancelTimeout == IF timer = "none" THEN "none" ELSE "released"

\* Lines 158-160: the watcher releases the timeout scope and returns.
Release ==
    /\ ~crashed
    /\ wpc = "release"
    /\ timer' = cancelTimeout
    /\ wpc' = "done"
    /\ UNCHANGED <<ret, argvLen, timeoutSec, parentDone, procVars, drainVars, code,
                   chanVars, consVars, cancelled>>
    /\ UNCHANGED sideVars

\* ------------------------------------------------------------------- caller
\* Mutant of Cancel: the cancel closure also closes the events channel.
CancelCloses ==
    /\ ~crashed
    /\ ret.cancel \in {"noop", "cancel"}
    /\ cancelled' = TRUE
    /\ timer' = IF ret.cancel = "cancel" THEN cancelTimeout ELSE timer
    /\ closed' = TRUE
    /\ closeCount' = IF closed THEN closeCount ELSE closeCount + 1
    /\ UNCHANGED <<ret, argvLen, timeoutSec, parentDone, procVars, drainVars, watchVars,
                   events, consVars>>
    /\ UNCHANGED sideVars

\* The cancel func Start returned: for an empty argv func() error { return nil },
\* otherwise the closure of lines 164-170.
Cancel ==
    /\ ~crashed
    /\ ret.cancel \in {"noop", "cancel"}
    /\ cancelled' = TRUE
    /\ timer' = IF ret.cancel = "cancel" THEN cancelTimeout ELSE timer
    /\ UNCHANGED <<ret, argvLen, timeoutSec, parentDone, procVars, drainVars, watchVars,
                   chanVars, consVars>>
    /\ UNCHANGED sideVars

\* The body of the consumer's loop for one received event: stdout chunks go
\* to the terminal's stdout, stderr chunks to its stderr, the exit code is noted.
Consume(ev) ==
    IF ev.Type = EventExit
    THEN /\ exits' = Append(exits, ev.Code)
         /\ UNCHANGED <<term, late>>
    ELSE /\ term' = [term EXCEPT ![ev.Type] = @ \o ev.Data]
         /\ late' = (late \/ Len(exits) > 0)
         /\ UNCHANGED exits

\* for ev := range events: one receive, which yields the oldest event, or
\* reports the feed closed once it is closed and empty, or blocks.
Recv ==
    /\ ~crashed
    /\ ret.feed = "ch"
    /\ ~sawClosed
    /\ IF Len(events) > 0
       THEN /\ Consume(Head(events))
            /\ events' = Tail(events)
            /\ UNCHANGED sawClosed
       ELSE /\ closed
            /\ sawClosed' = TRUE
            /\ UNCHANGED <<term, exits, late, events>>
    /\ UNCHANGED <<ret, argvLen, timeoutSec, timer, parentDone, procVars, drainVars,
                   watchVars, closed, closeCount, cancelled>>
    /\ UNCHANGED sideVars

Next ==
    \/ Start
    \/ \E s \in Streams : ProcWrite(s)
    \/ \E c \in ExitCodes : ProcExit(c)
    \/ ProcKill
    \/ TimerFire
    \/ ParentCancel
    \/ \E s \in Streams : ReadChunk(s)
    \/ \E s \in Streams : ReadEOF(s)
    \/ \E s \in Streams : ReadClosed(s)
    \/ \E s \in Streams : ReadIOError(s)
    \/ \E s \in Streams : Publish(s)
    \/ Wait
    \/ PublishExit
    \/ CloseEvents
    \/ Release
    \/ Cancel
    \/ Recv

Spec == Init /\ [][Next]_allVars

\* ------------------------------------------------------- slow consumer
\* Events queued when the consumer has fallen behind: one short of capacity.
Backlog == EventsCap - 1

\* An execution whose process has written Backlog bytes to stdout one at a
\* time, each read and published by the stdout drain as an event of its own,
\* while the consumer has received nothing yet.
BackInit ==
    /\ EnvIdle
    /\ AgentIdle
    /\ CodeIdle
    /\ McpIdle
    /\ ret = [feed |-> "ch", cancel |-> "cancel", err |-> FALSE]
    /\ argvLen = 1
    /\ timeoutSec \in TimeoutSecs
    /\ timer = IF timeoutSec > 0 THEN "armed" ELSE "none"
    /\ parentDone = FALSE
    /\ proc = "running"
    /\ status = 0
    /\ written = [s \in Streams |-> IF s = EventStdout THEN Backlog ELSE 0]
    /\ pipe = [s \in Streams |-> <<>>]
    /\ rdClosed = FALSE
    /\ rerr = [s \in Streams |-> "nil"]
    /\ pc = [s \in Streams |-> "read"]
    /\ buf = [s \in Streams |-> <<>>]
    /\ wpc = "wait"
    /\ code = 0
    /\ events = [i \in 1..Backlog |-> Event(EventStdout, <<i>>, 0)]
    /\ closed = FALSE
    /\ closeCount = 0
    /\ term = [s \in Streams |-> <<>>]
    /\ exits = <<>>
    /\ late = FALSE
    /\ sawClosed = FALSE
    /\ cancelled = FALSE

\* The steps of a started execution.
BackNext ==
    \/ \E s \in Streams : ProcWrite(s)
    \/ \E c \in ExitCodes : ProcExit(c)
    \/ ProcKill
    \/ TimerFire
    \/ ParentCancel
    \/ \E s \in Streams : ReadChunk(s)
    \/ \E s \in Streams : ReadEOF(s)
    \/ \E s \in Streams : ReadClosed(s)
    \/ \E s \in Streams : ReadIOError(s)
    \/ \E s \in Streams : Publish(s)
    \/ Wait
    \/ PublishExit
    \/ CloseEvents
    \/ Release
    \/ Cancel
    \/ Recv

BackSpec == BackInit /\ [][BackNext]_allVars

\* ------------------------------------------------- environment hand-over
EnvKeys == {"A", "B"}
EnvValues == {"x", "y"}
\* The lists of KEY=VALUE entries tried, as lists of <<key, value>>.
EnvLists == UNION {[1..n -> EnvKeys \X EnvValues] : n \in 0..MaxEnv}

Keys(list) == {list[i][1] : i \in DOMAIN list}

\* The environment a list of entries denotes for the process started with it:
\* for a key given more than once the last entry counts (os/exec).
EnvMap(list) ==
    [k \in Keys(list) |->
        LET last == CHOOSE i \in DOMAIN list :
                /\ list[i][1] = k
                /\ \A j \in DOMAIN list : list[j][1] = k => j <= i
        IN list[last][2]]

\* Mutant of ProcessEnviron: the override list is appended to the ambient
\* environment instead of replacing it.
ProcessEnvironMerged(env, environ) == EnvMap(environ \o env)

\* Lines 88-90 and os/exec: cmd.Env is opt.Env when that is non-empty, and a
\* nil cmd.Env makes the process inherit os.Environ().
ProcessEnviron(env, environ) ==
    IF Len(env) > 0 THEN EnvMap(env) ELSE EnvMap(environ)

\* os.Setenv(k, v) on a list of entries.
Setenv(environ, k, v) ==
    IF k \in Keys(environ)
    THEN [i \in DOMAIN environ |-> IF environ[i][1] = k THEN <<k, v>> ELSE environ[i]]
    ELSE Append(environ, <<k, v>>)

\* applyGlobalFlags: os.Setenv for every --env flag, in order.
RECURSIVE ApplyEnvFlags(_, _)
ApplyEnvFlags(environ, flags) ==
    IF flags = <<>> THEN environ
    ELSE ApplyEnvFlags(Setenv(environ, Head(flags)[1], Head(flags)[2]), Tail(flags))

\* runner.Start(ctx, argv, Options{Env: env}) by a caller of the package.
EnvStart(env) ==
    /\ ~procEnv.spawned
    /\ optEnv' = env
    /\ procEnv' = [spawned |-> TRUE, vars |-> ProcessEnviron(env, osEnviron)]
    /\ UNCHANGED <<osEnviron, vars, agentVars, codeVars, mcpVars>>

\* `codex --env ... run -- cmd`: the flags are applied to the program's own
\* environment, Options.Env is os.Environ() followed by the flags when flags
\* were given, and Start is called.
EnvRun(flags) ==
    /\ ~procEnv.spawned
    /\ osEnviron' = ApplyEnvFlags(osEnviron, flags)
    /\ optEnv' = IF Len(flags) > 0 THEN osEnviron' \o flags ELSE <<>>
    /\ procEnv' = [spawned |-> TRUE, vars |-> ProcessEnviron(optEnv', osEnviron')]
    /\ UNCHANGED <<vars, agentVars, codeVars, mcpVars>>

EnvInit ==
    /\ RunnerIdle
    /\ osEnviron \in EnvLists
    /\ optEnv = <<>>
    /\ procEnv = NoProcEnv
    /\ AgentIdle
    /\ CodeIdle
    /\ McpIdle

EnvNext ==
    \/ \E env \in EnvLists : EnvStart(env)
    \/ \E flags \in EnvLists : EnvRun(flags)

EnvSpec == EnvInit /\ [][EnvNext]_allVars

\* ------------------------------------------------------- protocol loop
\* Strings that go through string operations are lists of characters.
Hello == <<"H", "e", "l", "l", "o">>
HiThere == <<"H", "i", " ", "t", "h", "e", "r", "e">>
YouSaid == <<"Y", "o", "u", " ", "s", "a", "i", "d", ":", " ">>

OpInterrupt == "interrupt"
OpUserInput == "user_input"
OpExecApproval == "exec_approval"
EventError == "error"
EventTaskStarted == "task_started"
EventTaskComplete == "task_complete"
EventAgentMessage == "agent_message"

\* One input line: a Submission{ID, Op{Type, Items}}, or a line that
\* json.Unmarshal rejects.
Line(valid, id, type, items) ==
    [valid |-> valid, ID |-> id, Op |-> [Type |-> type, Items |-> items]]
InputItem(type, text) == [Type |-> type, Text |-> text]

\* The lines tried. The first one is the user_input submission of the README.
DocumentedSubmission == Line(TRUE, "sub-1", OpUserInput, <<InputItem("text", Hello)>>)
ServeLines ==
    { DocumentedSubmission,
      Line(TRUE, "sub-2", OpUserInput, <<>>),
      Line(TRUE, "sub-2", OpUserInput, <<InputItem("TEXT", <<" ">>), InputItem("image", <<>>)>>),
      Line(TRUE, "sub-3", OpUserInput, <<InputItem("Text", Hello), InputItem("text", Hello)>>),
      Line(TRUE, "sub-2", OpInterrupt, <<>>),
      Line(TRUE, "sub-1", OpExecApproval, <<>>),
      Line(FALSE, "", "", <<>>) }
ServeInputs == UNION {[1..n -> ServeLines] : n \in 0..MaxLines}

\* protocol.Event{ID, Msg{Type, Text, Message}}, and the frame written for a
\* line that is not JSON.
ProtoEvent(id, type, text, message) ==
    [ID |-> id, Type |-> type, Text |-> text, Message |-> message, Error |-> ""]
InvalidJSON == [ID |-> "", Type |-> "", Text |-> <<>>, Message |-> "", Error |-> "invalid json"]

\* strings.ToLower on the item types tried.
ToLower(t) == IF t \in {"TEXT", "Text"} THEN "text" ELSE t

IsSpace(c) == c \in {" ", "\t", "\n"}

\* strings.TrimSpace
RECURSIVE TrimLeft(_)
TrimLeft(str) ==
    IF str # <<>> /\ IsSpace(Head(str)) THEN TrimLeft(Tail(str)) ELSE str
RECURSIVE TrimRight(_)
TrimRight(str) ==
    IF str # <<>> /\ IsSpace(str[Len(str)])
    THEN TrimRight(SubSeq(str, 1, Len(str) - 1))
    ELSE str
TrimSpace(str) == TrimRight(TrimLeft(str))

\* strings.Join(parts, " ")
RECURSIVE Join(_)
Join(parts) ==
    IF parts = <<>> THEN <<>>
    ELSE IF Len(parts) = 1 THEN parts[1]
    ELSE parts[1] \o <<" ">> \o Join(Tail(parts))

\* The parts collected by the loop of textFromUserInput.
RECURSIVE TextParts(_)
TextParts(items) ==
    IF items = <<>> THEN <<>>
    ELSE IF ToLower(Head(items).Type) = "text" /\ Head(items).Text # <<>>
         THEN <<Head(items).Text>> \o TextParts(Tail(items))
         ELSE TextParts(Tail(items))

textFromUserInput(op) == TrimSpace(Join(TextParts(op.Items)))

\* Lines 66-70: the reply of the agent_message event.
Reply(op) ==
    LET text == textFromUserInput(op)
    IN IF text # <<>> THEN YouSaid \o text ELSE HiThere

\* Mutant of UserInputEvents: task_complete is written before agent_message.
UserInputEventsSwapped(sub) ==
    << ProtoEvent(sub.ID, EventTaskStarted, <<>>, ""),
       ProtoEvent(sub.ID, EventTaskComplete, <<>>, ""),
       ProtoEvent(sub.ID, EventAgentMessage, Reply(sub.Op), "") >>

\* case protocol.OpUserInput: the three frames written.
UserInputEvents(sub) ==
    << ProtoEvent(sub.ID, EventTaskStarted, <<>>, ""),
       ProtoEvent(sub.ID, EventAgentMessage, Reply(sub.Op), ""),
       ProtoEvent(sub.ID, EventTaskComplete, <<>>, "") >>

\* Mutant of InterruptEvents: the error is not bound to the submission id.
InterruptEventsNoId(sub) ==
    << ProtoEvent("", EventError, <<>>, "interrupted") >>

\* case protocol.OpInterrupt: the frame written.
InterruptEvents(sub) ==
    << ProtoEvent(sub.ID, EventError, <<>>, "interrupted") >>

\* Lines 52-83: the frames written for one line.
Respond(line) ==
    IF ~line.valid THEN <<InvalidJSON>>
    ELSE IF line.Op.Type = OpUserInput THEN UserInputEvents(line)
    ELSE IF line.Op.Type = OpInterrupt THEN InterruptEvents(line)
    ELSE << ProtoEvent(line.ID, EventError, <<>>, "unsupported op") >>

\* One iteration of the loop of Serve: scanner.Scan() yields a line; Serve
\* returns ctx.Err() if its context is done, and handles the line otherwise.
ServeLine ==
    /\ serveRet = "running"
    /\ scanner # <<>>
    /\ scanner' = Tail(scanner)
    /\ IF serveCtxDone
       THEN /\ serveRet' = "ctxErr"
            /\ UNCHANGED <<w, handled>>
       ELSE /\ w' = w \o Respond(Head(scanner))
            /\ handled' = Append(handled, Head(scanner))
            /\ UNCHANGED serveRet
    /\ UNCHANGED <<serveCtxDone, vars, envVars, codeVars, mcpVars>>

\* scanner.Scan() reports the end of the input: Serve returns scanner.Err().
ServeEOF ==
    /\ serveRet = "running"
    /\ scanner = <<>>
    /\ serveRet' = "nil"
    /\ UNCHANGED <<scanner, w, handled, serveCtxDone, vars, envVars, codeVars, mcpVars>>

\* The context handed to Serve is cancelled while Serve runs.
ServeCtxCancel ==
    /\ serveRet = "running"
    /\ ~serveCtxDone
    /\ serveCtxDone' = TRUE
    /\ UNCHANGED <<scanner, w, handled, serveRet, vars, envVars, codeVars, mcpVars>>

\* Serve(ctx, r, w) is called on an input.
AgentInit ==
    /\ RunnerIdle
    /\ EnvIdle
    /\ CodeIdle
    /\ McpIdle
    /\ scanner \in ServeInputs
    /\ w = <<>>
    /\ handled = <<>>
    /\ serveCtxDone = FALSE
    /\ serveRet = "running"

AgentNext ==
    \/ ServeLine
    \/ ServeEOF
    \/ ServeCtxCancel

AgentSpec == AgentInit /\ [][AgentNext]_allVars

\* ------------------------------------------------------------ mcp loop
\* One input line: a request{Method, Text}, or a line that json.Unmarshal
\* rejects.
McpRequest(valid, method, text) == [valid |-> valid, Method |-> method, Text |-> text]

\* The lines tried.
McpLines ==
    { McpRequest(TRUE, "ping", ""),
      McpRequest(TRUE, "echo", "hi"),
      McpRequest(TRUE, "echo", ""),
      McpRequest(TRUE, "tools", ""),
      McpRequest(FALSE, "", "") }
McpInputs == UNION {[1..n -> McpLines] : n \in 0..MaxLines}

\* The lines written: pong{Result}, errResp{Error} and agentMsg{Type, Text}.
McpLine(result, error, type, text) ==
    [Result |-> result, Error |-> error, Type |-> type, Text |-> text]
McpError(msg) == McpLine("", msg, "", "")

\* Lines 41-80: the line written for one input line.
McpRespond(req) ==
    IF ~req.valid THEN McpError("invalid json")
    ELSE IF req.Method = "ping" THEN McpLine("pong", "", "", "")
    ELSE IF req.Method = "echo"
         THEN IF req.Text = "" THEN McpError("missing text")
              ELSE McpLine("", "", "agent_message", req.Text)
    ELSE McpError("method not implemented")

\* Mutant of McpServeLine: after the error line for invalid JSON is written,
\* Serve returns.
McpServeLineStops ==
    /\ mcpRet = "running"
    /\ mcpScanner # <<>>
    /\ mcpScanner' = Tail(mcpScanner)
    /\ \E ok \in BOOLEAN :
        IF ok
        THEN /\ mcpW' = Append(mcpW, McpRespond(Head(mcpScanner)))
             /\ mcpHandled' = Append(mcpHandled, Head(mcpScanner))
             /\ mcpRet' = IF Head(mcpScanner).valid THEN mcpRet ELSE "nil"
        ELSE /\ mcpRet' = "writeErr"
             /\ UNCHANGED <<mcpW, mcpHandled>>
    /\ UNCHANGED <<vars, envVars, agentVars, codeVars>>

\* One iteration of the loop of mcp.Serve: scanner.Scan() yields a line and
\* its one response line is written; Serve returns the writer's error if the
\* write fails.
McpServeLine ==
    /\ mcpRet = "running"
    /\ mcpScanner # <<>>
    /\ mcpScanner' = Tail(mcpScanner)
    /\ \E ok \in BOOLEAN :
        IF ok
        THEN /\ mcpW' = Append(mcpW, McpRespond(Head(mcpScanner)))
             /\ mcpHandled' = Append(mcpHandled, Head(mcpScanner))
             /\ UNCHANGED mcpRet
        ELSE /\ mcpRet' = "writeErr"
             /\ UNCHANGED <<mcpW, mcpHandled>>
    /\ UNCHANGED <<vars, envVars, agentVars, codeVars>>

\* scanner.Scan() reports the end of the input: Serve returns scanner.Err().
McpServeEOF ==
    /\ mcpRet = "running"
    /\ mcpScanner = <<>>
    /\ mcpRet' = "nil"
    /\ UNCHANGED <<mcpScanner, mcpW, mcpHandled, vars, envVars, agentVars, codeVars>>

\* agent.Serve and mcp.Serve are each called on an input.
JsonInit ==
    /\ RunnerIdle
    /\ EnvIdle
    /\ CodeIdle
    /\ scanner \in ServeInputs
    /\ w = <<>>
    /\ handled = <<>>
    /\ serveCtxDone = FALSE
    /\ serveRet = "running"
    /\ mcpScanner \in McpInputs
    /\ mcpW = <<>>
    /\ mcpHandled = <<>>
    /\ mcpRet = "running"

JsonNext ==
    \/ ServeLine
    \/ ServeEOF
    \/ ServeCtxCancel
    \/ McpServeLine
    \/ McpServeEOF

JsonSpec == JsonInit /\ [][JsonNext]_allVars

\* --------------------------------------------------------------- exit code
\* The statuses the operating system may report: an exit status, or the
\* ExitStatus() of a process ended by a signal.
WaitStatuses == {KilledStatus} \cup 0..MaxStatus

\* What cmd.Wait may return, with the status of the process: nil for a
\* process that exited with status 0; an *ExitError for any other end of the
\* process, whose Sys() has an ExitStatus() method ("ExitError") or has none
\* ("ExitErrorNoStatus"); or an error that is not an *ExitError ("other": a
\* failed copy, or the context's error for a process that exited with
\* status 0 after the context was done).
WaitOutcomes ==
    {<<"nil", 0>>}
    \cup {<<"ExitError", st>> : st \in WaitStatuses \ {0}}
    \cup {<<"ExitErrorNoStatus", st>> : st \in WaitStatuses \ {0}}
    \cup {<<"other", st>> : st \in WaitStatuses}

\* Lines 144-155 of the watcher: cmd.Wait has returned werr; code is computed.
CodeWait ==
    /\ wstep = "wait"
    /\ wcode' = ExitCode(werr, wstatus)
    /\ wstep' = "send"
    /\ UNCHANGED <<werr, wstatus, sent, vars, envVars, agentVars, mcpVars>>

\* Line 156: events <- Event{Type: EventExit, Code: code}
CodeSend ==
    /\ wstep = "send"
    /\ sent' = <<Event(EventExit, <<>>, wcode)>>
    /\ wstep' = "done"
    /\ UNCHANGED <<werr, wstatus, wcode, vars, envVars, agentVars, mcpVars>>

\* The watcher of a process whose wait is about to return.
CodeInit ==
    /\ RunnerIdle
    /\ EnvIdle
    /\ AgentIdle
    /\ McpIdle
    /\ \E o \in WaitOutcomes : werr = o[1] /\ wstatus = o[2]
    /\ wcode = 0
    /\ wstep = "wait"
    /\ sent = <<>>

CodeNext ==
    \/ CodeWait
    \/ CodeSend

CodeSpec == CodeInit /\ [][CodeNext]_allVars

\* ------------------------------------------------------------------ helpers
\* The last Start call started a process (it returned the cancel closure).
Started == ret.cancel = "cancel"

\* Number of Exit events sent into the channel so far.
exitsPublished ==
    Len(exits) + Cardinality({i \in DOMAIN events : events[i].Type = EventExit})

\* Both drains and the exit watcher have returned.
AllFinished ==
    /\ closed
    /\ \A s \in Streams : pc[s] = "done"
    /\ wpc = "done"

\* A step of the process, of one of the three tasks, or of the consumer.
ExecStep ==
    \/ \E c \in ExitCodes : ProcExit(c)
    \/ ProcKill
    \/ \E s \in Streams : ReadChunk(s) \/ ReadEOF(s) \/ ReadClosed(s) \/ Publish(s)
    \/ Wait
    \/ PublishExit
    \/ CloseEvents
    \/ Release
    \/ Recv

\* The bytes 1..n in order.
Bytes(n) == [i \in 1..n |-> i]

\* ------------------------------------------------------------------- claims

\* C1: the Exit event is the last event delivered on the feed: the consumer
\* never receives a Stdout or Stderr event after it has received Exit.
C1_ExitIsLast == ~late

\* C2: no task ever publishes into the event channel after it has been
\* closed: no drain ever panics on a send on the closed channel.
C2_NoPublishAfterClose == \A s \in Streams : pc[s] # "panic"

\* C3: whatever the options, once cancel has been invoked while the process
\* is still running, the context bound to the process is cancelled, so that
\* the process is killed.
C3_CancelKills == (Started /\ cancelled /\ proc = "running") => ctxDone

\* C4: an execution always comes to an end: as long as the feed is not closed
\* or one of the three tasks has not finished, the process, a task or the
\* consumer can take a step.
C4_TasksFinish == Started => (AllFinished \/ ENABLED ExecStep)

\* C7: with no read error on either stream, once the consumer has received
\* Exit it has received every byte the process wrote, and none arrives later.
C7_OutputBeforeExit ==
    (Started /\ Len(exits) > 0 /\ \A s \in Streams : rerr[s] \in {"nil", "EOF"})
        => (~late /\ \A s \in Streams : term[s] = Bytes(written[s]))

\* C5: an execution that started a process publishes at most one Exit event,
\* has published exactly one once the watcher is past its send, and has
\* delivered exactly one once the consumer has seen the feed closed.
C5_ExactlyOneExit ==
    Started =>
        /\ exitsPublished <= 1
        /\ (wpc \in {"close", "release", "done"} => exitsPublished = 1)
        /\ (sawClosed => Len(exits) = 1)

\* C5 witness: a process killed after cancel, its feed consumed to closure
\* with its one Exit event.
C5_Witness ==
    Started /\ cancelled /\ sawClosed /\ exits = <<KilledStatus>>

\* C6 as claimed: whenever the consumer has seen a feed closed, for any argv,
\* it has received an Exit event on it before.
C6_ClosePrecededByExit == sawClosed => Len(exits) >= 1

\* C6 amended: whenever the consumer has seen closed the feed of a Start call
\* with a non-empty argv, it has received an Exit event on it before.
C6_ClosePrecededByExitNonEmpty == (sawClosed /\ argvLen > 0) => Len(exits) >= 1

\* C6 witness: the feed of a process that exited with status 3 seen closed.
C6_Witness == argvLen > 0 /\ sawClosed /\ exits = <<3>>

\* The state Start leaves behind for an empty argv.
EmptyHandle ==
    /\ ~ret.err
    /\ ret.feed = "ch"
    /\ ret.cancel = "noop"
    /\ closed
    /\ events = <<>>
    /\ exits = <<>>
    /\ ~late
    /\ \A s \in Streams : term[s] = <<>> /\ pc[s] = "none"
    /\ wpc = "none"
    /\ proc = "none"
    /\ timer = "none"

\* C8: after Start with an empty argv there is no error, the feed is closed
\* and holds no event, no process, timer scope or task exists, and an
\* invocation of the returned cancel changes nothing but having been invoked.
C8_EmptyArgv ==
    /\ []((argvLen = 0 /\ ret.feed # "none") => EmptyHandle)
    /\ [][(Cancel /\ ret.cancel = "noop") =>
            UNCHANGED <<ret, argvLen, timeoutSec, timer, parentDone, procVars,
                        drainVars, watchVars, chanVars, consVars>>]_vars

\* C8 witness: the empty feed seen closed by the consumer, cancel invoked.
C8_Witness == argvLen = 0 /\ ret.feed = "ch" /\ sawClosed /\ cancelled

\* C9: cancel can always be invoked on a returned handle, an invocation
\* neither panics nor closes the feed nor touches the channel or the tasks,
\* and the feed is closed at most once and carries at most one Exit event.
C9_CancelSafe ==
    /\ [](closeCount <= 1 /\ exitsPublished <= 1)
    /\ []((ret.cancel \in {"noop", "cancel"} /\ ~crashed) => ENABLED Cancel)
    /\ [][Cancel =>
            /\ ~crashed'
            /\ UNCHANGED <<chanVars, drainVars, watchVars, consVars>>]_vars

\* C9 witness: cancel invoked on an execution with a timeout whose feed was
\* closed once and consumed to closure.
C9_Witness ==
    Started /\ cancelled /\ timeoutSec > 0 /\ closeCount = 1 /\ sawClosed /\ Len(exits) = 1

\* The state Start leaves behind when the launch fails.
FailedLaunch ==
    /\ ret.feed = "nil"
    /\ ret.cancel = "nil"
    /\ proc = "none"
    /\ \A s \in Streams : pc[s] = "none" /\ term[s] = <<>>
    /\ wpc = "none"
    /\ events = <<>>
    /\ exits = <<>>
    /\ ~closed
    /\ timer \in {"none", "released"}

\* The state a Start call that starts a process with TimeoutSec t leaves behind.
FreshExecution(t) ==
    /\ ret = [feed |-> "ch", cancel |-> "cancel", err |-> FALSE]
    /\ proc = "running"
    /\ \A s \in Streams :
        pc[s] = "read" /\ term[s] = <<>> /\ pipe[s] = <<>> /\ rerr[s] = "nil"
    /\ wpc = "wait"
    /\ events = <<>>
    /\ exits = <<>>
    /\ ~closed /\ closeCount = 0 /\ ~rdClosed
    /\ ~late /\ ~sawClosed /\ ~cancelled /\ ~parentDone
    /\ timer = IF t > 0 THEN "armed" ELSE "none"

\* C10: a Start call that returns an error returns no feed and no cancel,
\* spawns no task and publishes no event, and a Start call made after it
\* starts its execution from scratch.
C10_LaunchFailure ==
    /\ [](ret.err => FailedLaunch)
    /\ [][\A t \in TimeoutSecs : (ret.err /\ StartOk(t)) => FreshExecution(t)']_vars

\* C10 witness: a failed launch whose timeout scope was released.
C10_Witness == ret.err /\ timeoutSec > 0 /\ timer = "released"

\* The process of an execution with a timeout was killed, and neither cancel
\* nor the caller's context had a part in it: the deadline killed it.
TimeoutKilled ==
    /\ Started
    /\ timeoutSec > 0
    /\ ~cancelled
    /\ ~parentDone
    /\ proc = "exited"
    /\ status = KilledStatus

\* C11: once the deadline of an execution has passed while its process runs,
\* the process can be killed with no call to cancel; and after such a kill the
\* execution keeps making progress until the feed is closed, every Exit event
\* carries a non-zero code, and the closed feed carries exactly one of them.
C11_TimeoutKills ==
    /\ (Started /\ timer = "fired" /\ proc = "running" /\ ~cancelled) => ENABLED ProcKill
    /\ TimeoutKilled =>
        /\ closed \/ ENABLED ExecStep
        /\ wpc # "wait" => code # 0
        /\ \A i \in DOMAIN events : events[i].Type = EventExit => events[i].Code # 0
        /\ \A i \in DOMAIN exits : exits[i] # 0
        /\ closed => exitsPublished = 1
        /\ sawClosed => Len(exits) = 1

\* C11 witness: the feed of a process killed by its deadline, consumed to
\* closure with its one Exit event.
C11_Witness == TimeoutKilled /\ sawClosed /\ Len(exits) = 1 /\ exits[1] # 0

\* The entry <<k, v>> is the one that counts for k in the list.
Counts(list, k, v) ==
    \E i \in DOMAIN list :
        /\ list[i] = <<k, v>>
        /\ \A j \in DOMAIN list : j > i => list[j][1] # k

\* The process observes exactly the variables of the list.
Observes(list) ==
    \A k \in EnvKeys : \A v \in EnvValues :
        (k \in DOMAIN procEnv.vars /\ procEnv.vars[k] = v) <=> Counts(list, k, v)

\* C12: a process started with a non-empty Options.Env observes exactly the
\* variables of that list and nothing of the caller's environment; started
\* with an empty Options.Env it observes the caller's environment.
C12_EnvReplaces ==
    procEnv.spawned =>
        IF Len(optEnv) > 0 THEN Observes(optEnv) ELSE Observes(osEnviron)

\* C12 witness: a process started with an override list while the caller's
\* environment holds a variable the list does not name.
C12_Witness ==
    /\ procEnv.spawned
    /\ Len(optEnv) > 0
    /\ Keys(osEnviron) \ Keys(optEnv) # {}

\* The user_input submissions and the interrupt submissions dispatched so far.
IsOp(line, type) == line.valid /\ line.Op.Type = type
UserInputs == SelectSeq(handled, LAMBDA l : IsOp(l, OpUserInput))
Interrupts == SelectSeq(handled, LAMBDA l : IsOp(l, OpInterrupt))

\* The task events written so far.
TaskEventTypes == {EventTaskStarted, EventAgentMessage, EventTaskComplete}
TaskEvents == SelectSeq(w, LAMBDA e : e.Type \in TaskEventTypes)

\* C13: the task events written are, submission by submission in the order
\* the user_input submissions were read, task_started, agent_message,
\* task_complete with the id of the submission, and the three events of a
\* submission are adjacent lines of the output.
C13_ThreeEventsInOrder ==
    /\ Len(TaskEvents) = 3 * Len(UserInputs)
    /\ \A j \in DOMAIN UserInputs :
        /\ TaskEvents[3 * j - 2].Type = EventTaskStarted
        /\ TaskEvents[3 * j - 1].Type = EventAgentMessage
        /\ TaskEvents[3 * j].Type = EventTaskComplete
        /\ \A k \in {3 * j - 2, 3 * j - 1, 3 * j} : TaskEvents[k].ID = UserInputs[j].ID
    /\ \A i \in DOMAIN w :
        w[i].Type = EventTaskStarted =>
            /\ i + 2 <= Len(w)
            /\ w[i + 1].Type = EventAgentMessage /\ w[i + 1].ID = w[i].ID
            /\ w[i + 2].Type = EventTaskComplete /\ w[i + 2].ID = w[i].ID

\* C13 witness: two user_input submissions with different ids answered.
C13_Witness ==
    /\ Len(UserInputs) = 2
    /\ UserInputs[1].ID # UserInputs[2].ID
    /\ Len(w) = 6

\* C14: the agent_message written for the documented submission, id "sub-1"
\* with the single text item "Hello", carries the text "Hi there".
C14_DocumentedReply ==
    handled = <<DocumentedSubmission>> =>
        (w[2].Type = EventAgentMessage /\ w[2].Text = HiThere)

\* The "interrupted" errors written so far.
InterruptedErrors ==
    SelectSeq(w, LAMBDA e : e.Type = EventError /\ e.Message = "interrupted")

\* C15: the "interrupted" errors written are, one per interrupt submission
\* read and in their order, bound to the id of the submission; and beyond
\* three task events per user_input submission, every line read accounts
\* for exactly one line written.
C15_InterruptOneError ==
    /\ Len(InterruptedErrors) = Len(Interrupts)
    /\ \A j \in DOMAIN Interrupts : InterruptedErrors[j].ID = Interrupts[j].ID
    /\ Len(TaskEvents) = 3 * Len(UserInputs)
    /\ Len(w) = Len(handled) + 2 * Len(UserInputs)

\* C15 witness: an interrupt read after a user_input submission.
C15_Witness ==
    /\ Len(handled) = 2
    /\ IsOp(handled[1], OpUserInput)
    /\ IsOp(handled[2], OpInterrupt)
    /\ w[4].Message = "interrupted"

\* C16: the channel of an execution is closed at most once, and the only step
\* that closes it is the watcher's close(events), taken after the watcher's
\* Exit event was published; no step of a drain, of cancel or of Start does.
C16_ClosedOnceByWatcher ==
    /\ [](Started => /\ closeCount <= 1
                     /\ closed <=> closeCount = 1
                     /\ closed => wpc \in {"release", "done"} /\ exitsPublished = 1)
    /\ [][(Started /\ Started' /\ <<closed, closeCount>>' # <<closed, closeCount>>) =>
            /\ wpc = "close" /\ wpc' = "release"
            /\ exitsPublished = 1
            /\ closed' /\ closeCount' = 1
            /\ UNCHANGED <<ret, pc, cancelled>>]_allVars

\* C16 witness: the drains returned at the end of their streams and cancel was
\* called before the watcher closed the channel, which is closed once.
C16_Witness ==
    /\ Started
    /\ cancelled
    /\ \A s \in Streams : rerr[s] = "EOF"
    /\ closed /\ closeCount = 1

\* The bytes of stream s carried by the events of a queue, in queue order.
RECURSIVE Queued(_, _)
Queued(q, s) ==
    IF q = <<>> THEN <<>>
    ELSE (IF Head(q).Type = s THEN Head(q).Data ELSE <<>>) \o Queued(Tail(q), s)

\* C17: per stream, the bytes delivered to the consumer, then those of the
\* events still queued in queue order, then the chunk read but not yet
\* published, then the bytes not yet read, are the bytes the process wrote in
\* the order it wrote them: events of one stream are delivered in the order
\* their chunks were read, whatever the other tasks do.
C17_StreamOrder ==
    Started =>
        \A s \in Streams :
            term[s] \o Queued(events, s) \o buf[s] \o pipe[s] = Bytes(written[s])

\* C17 witness: of two Stdout events with a Stderr event published between
\* them, the first is delivered and the second waits behind the Stderr event.
C17_Witness ==
    /\ Started
    /\ term[EventStdout] = <<1>>
    /\ Len(events) = 2
    /\ events[1].Type = EventStderr
    /\ events[2] = Event(EventStdout, <<2>>, 0)

\* A read of stream s has failed with an error other than end-of-stream.
ReadFailed(s) == rerr[s] = "io"

\* C19: a read error on stream s is a step that stops the drain of s and
\* nothing else: it queues no event and leaves the other drain, the watcher,
\* the channel and the process as they were. The drain holds no unpublished
\* chunk when it reads, so everything it read before is published. While the
\* channel is open after the error, the other drain can still read and
\* publish and the watcher can still wait, publish Exit and close.
C19_ReadErrorLocal ==
    /\ [](Started =>
            \A s \in Streams :
                /\ pc[s] \in {"read", "done"} => buf[s] = <<>>
                /\ ReadFailed(s) => pc[s] = "done"
                /\ (ReadFailed(s) /\ ~closed) =>
                    /\ ~crashed
                    /\ \A o \in Streams \ {s} :
                        /\ (pc[o] = "read" /\ ~rdClosed /\ pipe[o] # <<>>) => ENABLED ReadChunk(o)
                        /\ (pc[o] = "send" /\ Len(events) < EventsCap) => ENABLED Publish(o)
                    /\ (wpc = "wait" /\ proc = "exited") => ENABLED Wait
                    /\ (wpc = "send" /\ Len(events) < EventsCap) => ENABLED PublishExit
                    /\ wpc = "close" => ENABLED CloseEvents)
    /\ [][\A s \in Streams :
            (Started /\ ~ReadFailed(s) /\ ReadFailed(s)') =>
                /\ pc[s] = "read" /\ pc'[s] = "done"
                /\ \A o \in Streams \ {s} :
                    pc'[o] = pc[o] /\ rerr'[o] = rerr[o]
                /\ UNCHANGED <<buf, pipe, written, proc, status, rdClosed, watchVars,
                               chanVars, consVars, timer, ret>>]_allVars

\* C19 witness: stdout failed after one chunk, which is delivered; stderr,
\* read to its end, delivered both its chunks; Exit was delivered and the
\* feed seen closed.
C19_Witness ==
    /\ Started
    /\ ReadFailed(EventStdout)
    /\ term[EventStdout] = <<1>>
    /\ rerr[EventStderr] = "EOF"
    /\ term[EventStderr] = <<1, 2>>
    /\ exits = <<0>>
    /\ sawClosed

\* C20: the code of the Exit event is 0 exactly when the wait returned no
\* error; it is the status when the wait returned an exit error whose status
\* can be decoded; it is 1 when the status cannot be decoded.
C20_ExitCode ==
    sent # <<>> =>
        /\ sent[1].Type = EventExit
        /\ sent[1].Code = 0 <=> werr = "nil"
        /\ werr = "ExitError" => sent[1].Code = wstatus
        /\ werr \in {"ExitErrorNoStatus", "other"} => sent[1].Code = 1

\* C20 witness: a process that exited with status 3 yields Exit code 3.
C20_Witness ==
    /\ sent # <<>>
    /\ werr = "ExitError"
    /\ wstatus = 3
    /\ sent[1].Code = 3

\* The channel holds as many events as its capacity.
Full == Len(events) = EventsCap

\* C18: the channel never holds more than its capacity; and in a step taken
\* while the channel is full and in which the consumer receives nothing, a
\* drain that has read a chunk stays blocked on its publish, still holding
\* that chunk.
C18_BoundedBackPressure ==
    /\ [](Len(events) <= EventsCap)
    /\ [][\A s \in Streams :
            (Started /\ Full /\ pc[s] = "send" /\ events' = events) =>
                (pc'[s] = "send" /\ buf'[s] = buf[s])]_allVars

\* The part of C18 that holds: the bound, and the blocking while the channel
\* is open.
C18_BlocksWhileOpen ==
    /\ [](Len(events) <= EventsCap)
    /\ [](\A s \in Streams :
            (Started /\ Full /\ ~closed /\ pc[s] = "send") =>
                (buf[s] # <<>> /\ ~ENABLED Publish(s) /\ ~ENABLED ReadChunk(s)))
    /\ [][\A s \in Streams :
            (Started /\ Full /\ ~closed' /\ pc[s] = "send" /\ events' = events) =>
                (pc'[s] = "send" /\ buf'[s] = buf[s])]_allVars

\* The caller's context was cancelled while the process of the execution ran.
ParentCancelled == Started /\ parentDone

\* C21: once the caller's context is cancelled while the process runs, with
\* or without a timeout, the process can be killed; once the process is gone
\* the watcher's wait returns, its Exit event can be published (at once, or
\* after the consumer has received from a full channel) and the channel is
\* closed, with exactly one Exit on the closed feed; no task has panicked
\* before the close; and a drain that reads after the process is gone is
\* handed a chunk, the end of its stream or a read error, never left waiting.
C21_ParentCancelPropagates ==
    ParentCancelled =>
        /\ proc = "running" => ENABLED ProcKill
        /\ (proc = "exited" /\ wpc = "wait") => ENABLED Wait
        /\ wpc = "send" => (ENABLED PublishExit \/ ENABLED Recv)
        /\ wpc = "close" => ENABLED CloseEvents
        /\ wpc \in {"release", "done"} => (closed /\ exitsPublished = 1)
        /\ ~closed => ~crashed
        /\ \A s \in Streams :
            (proc = "exited" /\ pc[s] = "read" /\ ~crashed) =>
                (ENABLED ReadChunk(s) \/ ENABLED ReadEOF(s) \/ ENABLED ReadClosed(s))
        /\ sawClosed => Len(exits) = 1

\* C21 witness: with no timeout and no call to cancel, the process was killed
\* after the caller's context was cancelled, both drains reached the end of
\* their streams, and the consumer saw the Exit event and the feed closed.
C21_Witness ==
    /\ ParentCancelled
    /\ timeoutSec = 0
    /\ ~cancelled
    /\ status = KilledStatus
    /\ \A s \in Streams : rerr[s] = "EOF"
    /\ exits = <<KilledStatus>>
    /\ sawClosed

\* An execution, or a failed launch, that was configured with a timeout.
TimedCall == (Started \/ ret.err) /\ timeoutSec > 0

\* The step in which the watcher releases the timer scope and returns.
WatcherRelease == wpc = "release" /\ wpc' = "done"

\* C22: for a call with a timeout, the timer scope is released when Start
\* returns an error, when cancel has been invoked and when the watcher has
\* returned; the watcher releases it only after it has published Exit and
\* closed the channel; and until the scope is released the execution can
\* still take a step towards its release.
C22_TimerReleased ==
    /\ [](TimedCall =>
            /\ ret.err => timer = "released"
            /\ cancelled => timer = "released"
            /\ wpc = "done" => (timer = "released" /\ closed)
            /\ timer = "released" \/ ENABLED ExecStep)
    /\ [][(Started /\ WatcherRelease) =>
            (closed /\ exitsPublished = 1 /\ timer' = cancelTimeout)]_allVars

\* The part of C22 that holds: the same, for as long as no task has panicked.
C22_ReleasedUnlessCrashed ==
    /\ [](TimedCall =>
            /\ ret.err => timer = "released"
            /\ cancelled => timer = "released"
            /\ wpc = "done" => (timer = "released" /\ closed)
            /\ timer = "released" \/ crashed \/ ENABLED ExecStep)
    /\ [][(Started /\ WatcherRelease) =>
            (closed /\ exitsPublished = 1 /\ timer' = cancelTimeout)]_allVars

\* The lines agent.Serve is to write for a line: three for a user_input
\* submission, one for any other line.
LinesFor(line) == IF IsOp(line, OpUserInput) THEN 3 ELSE 1

\* Where in the output of agent.Serve the response to the i-th line starts.
RECURSIVE ResponseAt(_, _)
ResponseAt(lines, i) ==
    IF i = 1 THEN 1 ELSE ResponseAt(lines, i - 1) + LinesFor(lines[i - 1])

InvalidLines(lines) == SelectSeq(lines, LAMBDA l : ~l.valid)

\* C23: in agent.Serve and in mcp.Serve the lines written for invalid JSON
\* are as many as the invalid lines read; the response to each line read,
\* the invalid-JSON error for an invalid line and a response of its own for a
\* valid one, stands at the place the order of the input gives it; the lines
\* are read in input order, none skipped; reading an invalid line leaves the
\* loop running; and Serve returns nil only at the end of the input.
C23_InvalidJSONKeepsLoop ==
    /\ [](/\ Len(SelectSeq(w, LAMBDA e : e = InvalidJSON)) = Len(InvalidLines(handled))
          /\ \A i \in DOMAIN handled :
                LET at == ResponseAt(handled, i) IN
                /\ at <= Len(w)
                /\ IF handled[i].valid
                   THEN w[at] # InvalidJSON /\ w[at].ID = handled[i].ID
                   ELSE w[at] = InvalidJSON
          /\ serveRet = "nil" => scanner = <<>>
          /\ serveRet = "ctxErr" => serveCtxDone)
    /\ [](/\ Len(mcpW) = Len(mcpHandled)
          /\ \A i \in DOMAIN mcpHandled :
                /\ ~mcpHandled[i].valid <=> mcpW[i] = McpError("invalid json")
                /\ mcpHandled[i].Text # "" => mcpW[i].Text = mcpHandled[i].Text
          /\ mcpRet = "nil" => mcpScanner = <<>>)
    /\ [][/\ handled' # handled =>
                /\ handled' \o scanner' = handled \o scanner
                /\ Len(handled') = Len(handled) + 1
                /\ ~handled'[Len(handled')].valid => serveRet' = "running"
          /\ mcpHandled' # mcpHandled =>
                /\ mcpHandled' \o mcpScanner' = mcpHandled \o mcpScanner
                /\ Len(mcpHandled') = Len(mcpHandled) + 1
                /\ ~mcpHandled'[Len(mcpHandled')].valid => mcpRet' = "running"]_allVars

\* C23 witness: each loop has read an invalid line and then a valid one, and
\* has answered the first with the error and the second with its response.
C23_Witness ==
    /\ handled = <<Line(FALSE, "", "", <<>>), DocumentedSubmission>>
    /\ w[1] = InvalidJSON
    /\ Len(w) = 4
    /\ w[2].Type = EventTaskStarted
    /\ mcpHandled = <<McpRequest(FALSE, "", ""), McpRequest(TRUE, "ping", "")>>
    /\ mcpW = <<McpError("invalid json"), McpLine("pong", "", "", "")>>
====
